---------------------------- MODULE Spec2Model ----------------------------
(***************************************************************************)
(* Model of the sensor fusion node: LaneKeepingSystem::run (calibration    *)
(* followed by the fusion loop), the two subscriber callbacks that         *)
(* ros::spinOnce dispatches (imageCallback, scanCallback), and the         *)
(* CameraDetector operations the loop calls.                               *)
(*                                                                         *)
(* Units: lengths are integers in millimetres.  Angles are integers in     *)
(* quarter turns, so that cos and sin are exact; the scan messages drawn   *)
(* below only use such angles.  Floating point rounding is not modelled.   *)
(***************************************************************************)
EXTENDS Integers, Sequences, FiniteSets, TLC

(***************************************************************************)
(* Bounds of the model.                                                    *)
(***************************************************************************)
\* the largest range (in metres) a scan message carries
MaxRange == 2
\* the history counter of scan callbacks stops counting here
MaxCounted == 2

(***************************************************************************)
(* Program constants.                                                      *)
(***************************************************************************)
lStart == 0
lEnd == 127
rStart == 378
rEnd == 505
\* y of every camera-axes point built by the loop (-0.058 m)
MountOffset == 58
\* usb_cam image size
ImageWidth == 640
ImageHeight == 480
\* number of entries of each compiled-in correspondence list
CatalogSize == 20
\* cv::solvePnP rejects fewer object points than this
MinPnPPoints == 4
\* pinhole model used for the projection (focal length in pixels)
FocalLength == 400
\* z translation between the LiDAR and the VCS correspondence lists
VCSOffset == 457

(***************************************************************************)
(* Scan messages.  ranges[i] is `hi' at index `spike' and `lo' elsewhere,  *)
(* for 0 <= i < len; theta(i) = angle_min + i * angle_increment.           *)
(* angle_min is half a turn: beam 0 looks along -x, the camera's z axis;   *)
(* with an increment of a quarter turn the beams cover all four axes.      *)
(***************************************************************************)
ScanLens == {100, 400, 505, 720}
SpikeAt == {0, 200, 504}
ScanMsgs ==
    [len : ScanLens, angle_min : {2}, angle_increment : {0, 1},
     spike : SpikeAt, lo : {1000}, hi : {k * 1000 : k \in 2..MaxRange}]
NoMsg == [len |-> 0 - 1, angle_min |-> 0, angle_increment |-> 0,
          spike |-> 0, lo |-> 0, hi |-> 0]

\* what an out-of-range read of scan->ranges can yield when it does not trap
GarbageVals == {0, 1000}

(***************************************************************************)
(* Image messages: the pixel data (one RGB triple stands for the buffer)   *)
(* and the rectangles the external detector finds in that picture.         *)
(***************************************************************************)
Box1 == [x |-> 300, y |-> 200, w |-> 40, h |-> 20]
Box2 == [x |-> 310, y |-> 225, w |-> 20, h |-> 10]
ImageMsgs ==
    { [rgb |-> <<1, 2, 3>>, scene |-> <<>>],
      [rgb |-> <<4, 5, 6>>, scene |-> <<Box1>>],
      [rgb |-> <<7, 8, 9>>, scene |-> <<Box1, Box2>>] }
NoImage == [rgb |-> <<>>, scene |-> <<>>]
\* a default-constructed cv::Mat
EmptyFrame == [bgr |-> <<>>, scene |-> <<>>]

(***************************************************************************)
(* Correspondence lists: a list is the sequence of its target numbers.     *)
(* The compiled-in lists have CatalogSize entries each; shorter lists are  *)
(* drawn as well, to exercise calibration on an insufficient set.          *)
(***************************************************************************)
Targets(n) == [i \in 1..n |-> i]
Generate2DPoints == Targets(CatalogSize)
Generate3DLidarPoints == Targets(CatalogSize)
Generate3DVCSPoints == Targets(CatalogSize)
Catalogs ==
    [image2D : {Targets(MinPnPPoints - 1), Generate2DPoints},
     lidar3D : {Targets(MinPnPPoints - 1), Generate3DLidarPoints},
     vcs3D : {Targets(MinPnPPoints - 1), Generate3DVCSPoints}]

NoTransform == [frame |-> "none", n |-> 0, tz |-> 0]

VARIABLES
    catalog,            \* image2D, lidar3D, vcs3D of run
    pc,                 \* position of run
    rosOk,              \* ros::ok()
    fault,              \* "none", "exception" (escaped run) or "crash"
    mLidarExtrinsic,    \* LiDAR-to-camera transform
    mVCSExtrinsic,      \* VCS-to-camera transform
    mLidarCoord,        \* current scan cell
    mFrame,             \* current frame cell
    cb,                 \* scanCallback in progress: its position and message
    objectPoints,       \* locals of one loop iteration
    lidarImagePoints,
    bboxIdx,
    vcsCoords,
    emitted,            \* the VCS coordinates printed in this iteration
    steps,              \* history: fusion steps done in this iteration
    lastTick,           \* history: how the previous iteration ended
    lastScan,           \* history: message of the latest scanCallback
    lastImage,          \* history: message of the latest imageCallback
    written,            \* history: points pushed by the latest scanCallback
    tickScan,           \* history: mLidarCoord as read at line 93
    calibRuns,          \* history: number of calls of each calibration
    oob,                \* history: an out-of-range read of ranges happened
    nScans              \* history: scan callbacks started, up to MaxCounted

vars == <<catalog, pc, rosOk, fault, mLidarExtrinsic, mVCSExtrinsic,
          mLidarCoord, mFrame, cb, objectPoints, lidarImagePoints, bboxIdx,
          vcsCoords, emitted, steps, lastTick, lastScan, lastImage, written,
          tickScan, calibRuns, oob, nScans>>

calibVars == <<mLidarExtrinsic, mVCSExtrinsic, calibRuns>>
cellVars == <<mLidarCoord, mFrame, cb, lastScan, lastImage, written, oob,
              nScans>>
tickVars == <<objectPoints, lidarImagePoints, bboxIdx, vcsCoords, emitted,
              steps, tickScan>>

Init ==
    /\ catalog \in Catalogs
    /\ pc = "calibLidar"
    /\ rosOk = TRUE
    /\ fault = "none"
    /\ mLidarExtrinsic = NoTransform
    /\ mVCSExtrinsic = NoTransform
    /\ mLidarCoord = <<>>
    /\ mFrame = EmptyFrame
    /\ cb = [state |-> "none", msg |-> NoMsg]
    /\ objectPoints = <<>>
    /\ lidarImagePoints = <<>>
    /\ bboxIdx = <<>>
    /\ vcsCoords = <<>>
    /\ emitted = <<>>
    /\ steps = <<>>
    /\ lastTick = "none"
    /\ lastScan = NoMsg
    /\ lastImage = NoImage
    /\ written = <<>>
    /\ tickScan = <<>>
    /\ calibRuns = [lidar |-> 0, vcs |-> 0]
    /\ oob = FALSE
    /\ nScans = 0

(***************************************************************************)
(* Calibration.                                                            *)
(***************************************************************************)
\* cv::solvePnP asserts at least MinPnPPoints object points and as many
\* image points as object points; otherwise it throws cv::Exception
PnPAccepts(imagePoints, objectPoints3D) ==
    /\ Len(objectPoints3D) >= MinPnPPoints
    /\ Len(imagePoints) = Len(objectPoints3D)

\* the pose solved from a correspondence set
solvePnP(imagePoints, objectPoints3D, frame) ==
    [frame |-> frame, n |-> Len(objectPoints3D),
     tz |-> IF frame = "vcs" THEN VCSOffset ELSE 0]

getLidarExtrinsicMatrix(imagePoints, objectPoints3D) ==
    solvePnP(imagePoints, objectPoints3D, "lidar")

getVCSExtrinsicMatrix(imagePoints, objectPoints3D) ==
    solvePnP(imagePoints, objectPoints3D, "vcs")

\* variant of CalibrateLidar: the exception is caught and run goes on
CalibrateLidar_Swallow ==
    /\ pc = "calibLidar"
    /\ calibRuns' = [calibRuns EXCEPT !.lidar = @ + 1]
    /\ mLidarExtrinsic' =
          IF PnPAccepts(catalog.image2D, catalog.lidar3D)
          THEN getLidarExtrinsicMatrix(catalog.image2D, catalog.lidar3D)
          ELSE mLidarExtrinsic
    /\ pc' = "calibVCS"
    /\ UNCHANGED <<catalog, rosOk, fault, mVCSExtrinsic, cellVars, tickVars,
                   lastTick>>

\* run, line 83: an exception of the calibration leaves run
CalibrateLidar ==
    /\ pc = "calibLidar"
    /\ calibRuns' = [calibRuns EXCEPT !.lidar = @ + 1]
    /\ IF PnPAccepts(catalog.image2D, catalog.lidar3D)
       THEN /\ mLidarExtrinsic' =
                   getLidarExtrinsicMatrix(catalog.image2D, catalog.lidar3D)
            /\ pc' = "calibVCS"
            /\ fault' = fault
       ELSE /\ mLidarExtrinsic' = mLidarExtrinsic
            /\ pc' = "aborted"
            /\ fault' = "exception"
    /\ UNCHANGED <<catalog, rosOk, mVCSExtrinsic, cellVars, tickVars, lastTick>>

\* variant of CalibrateVCS: the call of line 84 is missing
CalibrateVCS_Skipped ==
    /\ pc = "calibVCS"
    /\ pc' = "while"
    /\ UNCHANGED <<catalog, rosOk, fault, calibVars, cellVars, tickVars, lastTick>>

\* run, line 84
CalibrateVCS ==
    /\ pc = "calibVCS"
    /\ calibRuns' = [calibRuns EXCEPT !.vcs = @ + 1]
    /\ IF PnPAccepts(catalog.image2D, catalog.vcs3D)
       THEN /\ mVCSExtrinsic' =
                   getVCSExtrinsicMatrix(catalog.image2D, catalog.vcs3D)
            /\ pc' = "while"
            /\ fault' = fault
       ELSE /\ mVCSExtrinsic' = mVCSExtrinsic
            /\ pc' = "aborted"
            /\ fault' = "exception"
    /\ UNCHANGED <<catalog, rosOk, mLidarExtrinsic, cellVars, tickVars, lastTick>>

(***************************************************************************)
(* scanCallback: polar to Cartesian for the two index windows.             *)
(***************************************************************************)
cosQ(q) == CASE q % 4 = 0 -> 1 [] q % 4 = 1 -> 0 [] q % 4 = 2 -> 0 - 1 [] OTHER -> 0
sinQ(q) == CASE q % 4 = 0 -> 0 [] q % 4 = 1 -> 1 [] q % 4 = 2 -> 0 [] OTHER -> 0 - 1

\* scan->ranges[i] for an index inside the message
RangeOf(msg, i) == IF i = msg.spike THEN msg.hi ELSE msg.lo

\* scan->ranges[i] as the callback reads it: past the end of the sequence
\* the read is undefined and yields g
ReadRange(msg, i, g) == IF i < msg.len THEN RangeOf(msg, i) ELSE g

\* lines 141-150 and 155-164: one beam
BeamPoint(r, msg, i) ==
    LET theta == msg.angle_min + i * msg.angle_increment
    IN  [x |-> r * cosQ(theta), y |-> r * sinQ(theta)]

\* the points one for-loop pushes, beams first .. last-1 in ascending order
WindowPoints(msg, first, last, g) ==
    [k \in 1..(last - first) |->
        BeamPoint(ReadRange(msg, first + k - 1, g), msg, first + k - 1)]

\* the points pushed before a read past the end traps
PointsBeforeTrap(msg, first, last) ==
    IF msg.len <= first THEN <<>>
    ELSE [k \in 1..(msg.len - first) |->
            BeamPoint(RangeOf(msg, first + k - 1), msg, first + k - 1)]

ScanIdle == [state |-> "none", msg |-> NoMsg]

\* variant of ScanClear: the clear() of line 137 is missing
ScanClear_NoClear ==
    /\ pc = "spin"
    /\ cb.state = "none"
    /\ \E msg \in ScanMsgs :
          /\ cb' = [state |-> "left", msg |-> msg]
          /\ lastScan' = msg
    /\ mLidarCoord' = mLidarCoord
    /\ written' = <<>>
    /\ nScans' = IF nScans < MaxCounted THEN nScans + 1 ELSE nScans
    /\ UNCHANGED <<catalog, pc, rosOk, fault, calibVars, mFrame, lastImage,
                   oob, tickVars, lastTick>>

\* line 137, executed by ros::spinOnce on the thread of run
ScanClear ==
    /\ pc = "spin"
    /\ cb.state = "none"
    /\ \E msg \in ScanMsgs :
          /\ cb' = [state |-> "left", msg |-> msg]
          /\ lastScan' = msg
    /\ mLidarCoord' = <<>>
    /\ written' = <<>>
    /\ nScans' = IF nScans < MaxCounted THEN nScans + 1 ELSE nScans
    /\ UNCHANGED <<catalog, pc, rosOk, fault, calibVars, mFrame, lastImage,
                   oob, tickVars, lastTick>>

\* variant of ScanWindow: a window the message does not cover is skipped
ScanWindow_SkipsShort(here, first, last, next) ==
    /\ pc = "spin"
    /\ cb.state = here
    /\ IF cb.msg.len >= last
       THEN /\ mLidarCoord' = mLidarCoord \o WindowPoints(cb.msg, first, last, 0)
            /\ written' = written \o WindowPoints(cb.msg, first, last, 0)
       ELSE /\ mLidarCoord' = mLidarCoord
            /\ written' = written
    /\ cb' = IF next = "none" THEN ScanIdle ELSE [cb EXCEPT !.state = next]
    /\ UNCHANGED <<catalog, pc, rosOk, fault, oob, calibVars, mFrame, lastScan,
                   lastImage, nScans, tickVars, lastTick>>

\* one for-loop of scanCallback over beams first .. last-1
ScanWindow(here, first, last, next) ==
    /\ pc = "spin"
    /\ cb.state = here
    /\ IF cb.msg.len >= last
       THEN /\ mLidarCoord' = mLidarCoord \o WindowPoints(cb.msg, first, last, 0)
            /\ written' = written \o WindowPoints(cb.msg, first, last, 0)
            /\ cb' = IF next = "none" THEN ScanIdle ELSE [cb EXCEPT !.state = next]
            /\ UNCHANGED <<pc, fault, oob>>
       ELSE /\ oob' = TRUE
            /\ \/ \E g \in GarbageVals :
                     /\ mLidarCoord' =
                            mLidarCoord \o WindowPoints(cb.msg, first, last, g)
                     /\ written' = written \o WindowPoints(cb.msg, first, last, g)
                     /\ cb' = IF next = "none" THEN ScanIdle
                              ELSE [cb EXCEPT !.state = next]
                     /\ UNCHANGED <<pc, fault>>
               \/ /\ mLidarCoord' =
                         mLidarCoord \o PointsBeforeTrap(cb.msg, first, last)
                  /\ written' = written \o PointsBeforeTrap(cb.msg, first, last)
                  /\ cb' = cb
                  /\ pc' = "crashed"
                  /\ fault' = "crash"
    /\ UNCHANGED <<catalog, rosOk, calibVars, mFrame, lastScan, lastImage,
                   nScans, tickVars, lastTick>>

\* lines 139-151
ScanLeftWindow == ScanWindow("left", lStart, lEnd, "right")

\* lines 153-165
ScanRightWindow == ScanWindow("right", rStart, rEnd, "none")

(***************************************************************************)
(* imageCallback: wraps the message buffer and converts RGB to BGR into    *)
(* mFrame.                                                                 *)
(***************************************************************************)
cvtColorRGB2BGR(rgb) == <<rgb[3], rgb[2], rgb[1]>>

imageCallback ==
    /\ pc = "spin"
    /\ cb.state = "none"
    /\ \E message \in ImageMsgs :
          /\ mFrame' = [bgr |-> cvtColorRGB2BGR(message.rgb),
                        scene |-> message.scene]
          /\ lastImage' = message
    /\ UNCHANGED <<catalog, pc, rosOk, fault, calibVars, mLidarCoord, cb,
                   lastScan, written, oob, nScans, tickVars, lastTick>>

(***************************************************************************)
(* CameraDetector operations called by the loop.                           *)
(***************************************************************************)
\* pinhole projection of one camera-axes point under the transform T
ProjectPoint(p, T) ==
    LET depth == p.z + T.tz
    IN  IF depth > 0
        THEN [valid |-> TRUE,
              u |-> (ImageWidth \div 2) + ((FocalLength * p.x) \div depth),
              v |-> (ImageHeight \div 2) + ((FocalLength * p.y) \div depth)]
        ELSE [valid |-> FALSE, u |-> 0, v |-> 0]

\* one pixel per point, in the order of the points
getProjectPoints(points, T) ==
    [i \in 1..Len(points) |-> ProjectPoint(points[i], T)]

\* the rectangles the detector reports for a frame
Detect(img) == img.scene

InsideBox(px, box) ==
    /\ px.valid
    /\ px.u >= 0 /\ px.u < ImageWidth
    /\ px.v >= 0 /\ px.v < ImageHeight
    /\ box.x <= px.u /\ px.u <= box.x + box.w
    /\ box.y <= px.v /\ px.v <= box.y + box.h

\* indices (from 0) of the pixels inside at least one box, each once,
\* in ascending order
Associate(pixels, boxes) ==
    SelectSeq([i \in 1..Len(pixels) |-> i - 1],
              LAMBDA k : \E b \in 1..Len(boxes) : InsideBox(pixels[k + 1], boxes[b]))

\* an empty image is skipped without running the detector
boundingBox(img, pixels) ==
    IF img = EmptyFrame THEN <<>> ELSE Associate(pixels, Detect(img))

getVCSCoordPointsFromLidar(p, TL, TV) ==
    [x |-> p.x, y |-> p.y, z |-> p.z + (TV.tz - TL.tz)]

(***************************************************************************)
(* The loop of run.                                                        *)
(***************************************************************************)
\* line 86: the loop condition; the locals of the previous iteration are gone
WhileCheck ==
    /\ pc = "while"
    /\ pc' = IF rosOk THEN "spin" ELSE "done"
    /\ objectPoints' = <<>>
    /\ lidarImagePoints' = <<>>
    /\ bboxIdx' = <<>>
    /\ vcsCoords' = <<>>
    /\ emitted' = <<>>
    /\ steps' = <<>>
    /\ tickScan' = <<>>
    /\ UNCHANGED <<catalog, rosOk, fault, calibVars, cellVars, lastTick>>

\* variant of SpinReturn: the callbacks run on another thread and the loop
\* does not wait for them
SpinReturn_Async ==
    /\ pc = "spin"
    /\ pc' = "check"
    /\ UNCHANGED <<catalog, rosOk, fault, calibVars, cellVars, tickVars, lastTick>>

\* line 88: ros::spinOnce returns when the callbacks it called have returned
SpinReturn ==
    /\ pc = "spin"
    /\ cb.state = "none"
    /\ pc' = "check"
    /\ UNCHANGED <<catalog, rosOk, fault, calibVars, cellVars, tickVars, lastTick>>

\* variant of CheckIdle: the test of line 93 is missing
CheckIdle_NoSkip ==
    /\ pc = "check"
    /\ tickScan' = mLidarCoord
    /\ pc' = "toCamera"
    /\ UNCHANGED <<catalog, rosOk, fault, calibVars, cellVars, objectPoints,
                   lidarImagePoints, bboxIdx, vcsCoords, emitted, steps, lastTick>>

\* variant of CheckIdle: the skip of line 94 re-enters the body without
\* evaluating the loop condition
CheckIdle_SkipsCondition ==
    /\ pc = "check"
    /\ tickScan' = mLidarCoord
    /\ IF Len(mLidarCoord) = 0
       THEN /\ pc' = "spin"
            /\ lastTick' = "idle"
       ELSE /\ pc' = "toCamera"
            /\ lastTick' = lastTick
    /\ UNCHANGED <<catalog, rosOk, fault, calibVars, cellVars, objectPoints,
                   lidarImagePoints, bboxIdx, vcsCoords, emitted, steps>>

\* variant of CheckIdle: line 93 tests the frame instead of the scan
CheckIdle_TestsFrame ==
    /\ pc = "check"
    /\ tickScan' = mLidarCoord
    /\ IF mFrame = EmptyFrame
       THEN /\ pc' = "while"
            /\ lastTick' = "idle"
       ELSE /\ pc' = "toCamera"
            /\ lastTick' = lastTick
    /\ UNCHANGED <<catalog, rosOk, fault, calibVars, cellVars, objectPoints,
                   lidarImagePoints, bboxIdx, vcsCoords, emitted, steps>>

\* lines 93-94
CheckIdle ==
    /\ pc = "check"
    /\ tickScan' = mLidarCoord
    /\ IF Len(mLidarCoord) = 0
       THEN /\ pc' = "while"
            /\ lastTick' = "idle"
       ELSE /\ pc' = "toCamera"
            /\ lastTick' = lastTick
    /\ UNCHANGED <<catalog, rosOk, fault, calibVars, cellVars, objectPoints,
                   lidarImagePoints, bboxIdx, vcsCoords, emitted, steps>>

\* variant of ToCameraAxes: the projection of line 104 is left out
ToCameraAxes_SkipProject ==
    /\ pc = "toCamera"
    /\ objectPoints' =
          [i \in 1..Len(mLidarCoord) |->
              [x |-> mLidarCoord[i].y, y |-> 0 - MountOffset,
               z |-> 0 - mLidarCoord[i].x]]
    /\ pc' = "boundingBox"
    /\ UNCHANGED <<catalog, rosOk, fault, calibVars, cellVars, lidarImagePoints,
                   bboxIdx, vcsCoords, emitted, steps, tickScan, lastTick>>

\* lines 98-101
ToCameraAxes ==
    /\ pc = "toCamera"
    /\ objectPoints' =
          [i \in 1..Len(mLidarCoord) |->
              [x |-> mLidarCoord[i].y, y |-> 0 - MountOffset,
               z |-> 0 - mLidarCoord[i].x]]
    /\ pc' = "project"
    /\ UNCHANGED <<catalog, rosOk, fault, calibVars, cellVars, lidarImagePoints,
                   bboxIdx, vcsCoords, emitted, steps, tickScan, lastTick>>

\* line 104
Project ==
    /\ pc = "project"
    /\ lidarImagePoints' = getProjectPoints(objectPoints, mLidarExtrinsic)
    /\ steps' = Append(steps, "project")
    /\ pc' = "boundingBox"
    /\ UNCHANGED <<catalog, rosOk, fault, calibVars, cellVars, objectPoints,
                   bboxIdx, vcsCoords, emitted, tickScan, lastTick>>

\* line 110
BoundingBox ==
    /\ pc = "boundingBox"
    /\ bboxIdx' = boundingBox(mFrame, lidarImagePoints)
    /\ steps' = steps \o (IF mFrame = EmptyFrame THEN <<"associate">>
                          ELSE <<"detect", "associate">>)
    /\ pc' = "toVCS"
    /\ UNCHANGED <<catalog, rosOk, fault, calibVars, cellVars, objectPoints,
                   lidarImagePoints, vcsCoords, emitted, tickScan, lastTick>>

\* variant of ConvertToVCS: line 115 indexes objectPoints by idx
ConvertToVCS_ByPosition ==
    /\ pc = "toVCS"
    /\ LET out == [idx \in 1..Len(bboxIdx) |->
                     getVCSCoordPointsFromLidar(objectPoints[idx],
                                                mLidarExtrinsic, mVCSExtrinsic)]
       IN  /\ vcsCoords' = out
           /\ emitted' = out
    /\ steps' = steps \o <<"convert", "emit">>
    /\ lastTick' = "fused"
    /\ pc' = "while"
    /\ UNCHANGED <<catalog, rosOk, fault, calibVars, cellVars, objectPoints,
                   lidarImagePoints, bboxIdx, tickScan>>

\* variant of ConvertToVCS: line 114 runs over objectPoints
ConvertToVCS_AllPoints ==
    /\ pc = "toVCS"
    /\ LET out == [idx \in 1..Len(objectPoints) |->
                     getVCSCoordPointsFromLidar(objectPoints[idx],
                                                mLidarExtrinsic, mVCSExtrinsic)]
       IN  /\ vcsCoords' = out
           /\ emitted' = out
    /\ steps' = steps \o <<"convert", "emit">>
    /\ lastTick' = "fused"
    /\ pc' = "while"
    /\ UNCHANGED <<catalog, rosOk, fault, calibVars, cellVars, objectPoints,
                   lidarImagePoints, bboxIdx, tickScan>>

\* lines 112-118: each converted point is pushed and printed
ConvertToVCS ==
    /\ pc = "toVCS"
    /\ LET out == [idx \in 1..Len(bboxIdx) |->
                     getVCSCoordPointsFromLidar(objectPoints[bboxIdx[idx] + 1],
                                                mLidarExtrinsic, mVCSExtrinsic)]
       IN  /\ vcsCoords' = out
           /\ emitted' = out
    /\ steps' = steps \o <<"convert", "emit">>
    /\ lastTick' = "fused"
    /\ pc' = "while"
    /\ UNCHANGED <<catalog, rosOk, fault, calibVars, cellVars, objectPoints,
                   lidarImagePoints, bboxIdx, tickScan>>

\* a shutdown request: ros::ok() is false from then on
Shutdown ==
    /\ rosOk
    /\ pc \notin {"done", "aborted", "crashed"}
    /\ rosOk' = FALSE
    /\ UNCHANGED <<catalog, pc, fault, calibVars, cellVars, tickVars, lastTick>>

Next ==
    \/ CalibrateLidar
    \/ CalibrateVCS
    \/ WhileCheck
    \/ SpinReturn
    \/ ScanClear
    \/ ScanLeftWindow
    \/ ScanRightWindow
    \/ imageCallback
    \/ CheckIdle
    \/ ToCameraAxes
    \/ Project
    \/ BoundingBox
    \/ ConvertToVCS
    \/ Shutdown

Spec == Init /\ [][Next]_vars

TypeOK ==
    /\ pc \in {"calibLidar", "calibVCS", "while", "spin", "check", "toCamera",
               "project", "boundingBox", "toVCS", "done", "aborted", "crashed"}
    /\ fault \in {"none", "exception", "crash"}
    /\ cb.state \in {"none", "left", "right"}
    /\ rosOk \in BOOLEAN

(***************************************************************************)
(* Properties.                                                             *)
(***************************************************************************)
LoopPcs == {"while", "spin", "check", "toCamera", "project", "boundingBox",
            "toVCS"}
WorkPcs == {"toCamera", "project", "boundingBox", "toVCS"}
ScanSize == (lEnd - lStart) + (rEnd - rStart)

\* C1: while the current-scan cell is empty, an iteration of the loop gets
\* no further than the test of line 93: it projects, associates and converts
\* nothing, prints no obstacle and raises no error.
C1_IdleTickNoOp ==
    (pc \in LoopPcs /\ Len(mLidarCoord) = 0) =>
        /\ pc \in {"while", "spin", "check"}
        /\ steps = <<>>
        /\ objectPoints = <<>>
        /\ lidarImagePoints = <<>>
        /\ bboxIdx = <<>>
        /\ vcsCoords = <<>>
        /\ emitted = <<>>
        /\ fault = "none"

\* an iteration was skipped although a camera frame had arrived
C1_Witness ==
    /\ pc = "while"
    /\ lastTick = "idle"
    /\ Len(mLidarCoord) = 0
    /\ mFrame # EmptyFrame

\* the fusion steps of an iteration, without the detector's own run
FusionSteps(log) == SelectSeq(log, LAMBDA e : e # "detect")

\* C2: an iteration that finds a scan projects, then associates, then
\* converts and prints the obstacle list, each once and in this order.
C2_FusingTickOrder ==
    /\ pc \in {"toCamera", "project"} => steps = <<>>
    /\ pc = "boundingBox" => FusionSteps(steps) = <<"project">>
    /\ pc = "toVCS" => FusionSteps(steps) = <<"project", "associate">>
    /\ (pc = "while" /\ tickScan # <<>>) =>
          /\ lastTick = "fused"
          /\ FusionSteps(steps) = <<"project", "associate", "convert", "emit">>

C2_Witness ==
    /\ pc = "while"
    /\ lastTick = "fused"
    /\ steps = <<"project", "detect", "associate", "convert", "emit">>
    /\ Len(emitted) > 0

\* C3: each extrinsic transform is computed exactly once, before the loop;
\* in every state of the loop both are the transforms solved at startup.
C3_CalibratedOnce ==
    /\ calibRuns.lidar <= 1
    /\ calibRuns.vcs <= 1
    /\ pc \in (LoopPcs \cup {"done", "crashed"}) =>
          /\ calibRuns = [lidar |-> 1, vcs |-> 1]
          /\ mLidarExtrinsic # NoTransform
          /\ mVCSExtrinsic # NoTransform
          /\ mLidarExtrinsic =
                getLidarExtrinsicMatrix(catalog.image2D, catalog.lidar3D)
          /\ mVCSExtrinsic =
                getVCSExtrinsicMatrix(catalog.image2D, catalog.vcs3D)

\* a second fusing iteration, after callbacks, still under the first calibration
C3_Witness ==
    /\ pc = "toVCS"
    /\ lastTick = "fused"
    /\ nScans >= 2
    /\ calibRuns = [lidar |-> 1, vcs |-> 1]

Sufficient(imagePoints, objectPoints3D) ==
    /\ Len(objectPoints3D) >= MinPnPPoints
    /\ Len(imagePoints) = Len(objectPoints3D)

\* C4: with a correspondence set of fewer than 4 points, or of differing
\* counts, run ends in the exception of the calibration and the loop is
\* never entered.
C4_InsufficientNeverFuses ==
    (\/ ~Sufficient(catalog.image2D, catalog.lidar3D)
     \/ ~Sufficient(catalog.image2D, catalog.vcs3D)) =>
        /\ pc \in {"calibLidar", "calibVCS", "aborted"}
        /\ pc = "aborted" => fault = "exception"
        /\ steps = <<>>
        /\ lastTick = "none"
        /\ emitted = <<>>

\* the first calibration succeeded, the second was given too few points
C4_Witness ==
    /\ pc = "aborted"
    /\ fault = "exception"
    /\ mLidarExtrinsic # NoTransform
    /\ Len(catalog.vcs3D) < MinPnPPoints

\* the beam index of position k (from 1) of a rasterized scan
BeamAt(k) ==
    IF k <= lEnd - lStart THEN lStart + k - 1
    ELSE rStart + (k - (lEnd - lStart)) - 1

\* C5: after every scanCallback the cell holds one point per beam of the
\* two windows, in ascending beam order, each computed from the range the
\* message carries for that beam (as stated, for messages of every length).
C5_RasterizesEveryScan ==
    (lastScan # NoMsg /\ (cb.state = "none" \/ pc = "crashed")) =>
        /\ fault # "crash"
        /\ Len(mLidarCoord) = ScanSize
        /\ \A k \in 1..Len(mLidarCoord) :
              /\ BeamAt(k) < lastScan.len
              /\ mLidarCoord[k] =
                    BeamPoint(RangeOf(lastScan, BeamAt(k)), lastScan, BeamAt(k))

\* the same for the messages that carry a range for every beam read
RasterizesFullScan ==
    (lastScan # NoMsg /\ lastScan.len >= rEnd /\ cb.state = "none") =>
        /\ fault = "none"
        /\ Len(mLidarCoord) = ScanSize
        /\ \A k \in 1..Len(mLidarCoord) :
              mLidarCoord[k] =
                  BeamPoint(RangeOf(lastScan, BeamAt(k)), lastScan, BeamAt(k))

\* C6: wherever the loop is past ros::spinOnce no scanCallback is in
\* progress; the cell is empty (no message yet) or holds exactly the
\* ScanSize points of the latest callback, and it keeps the value read at
\* line 93 until the iteration ends.
C6_TickReadsWholeScan ==
    pc \in ({"check"} \cup WorkPcs) =>
        /\ cb.state = "none"
        /\ \/ mLidarCoord = <<>> /\ lastScan = NoMsg
           \/ mLidarCoord = written /\ Len(mLidarCoord) = ScanSize
        /\ pc \in WorkPcs => mLidarCoord = tickScan

\* an iteration works on the scan of a callback that replaced an earlier scan
C6_Witness ==
    /\ pc = "project"
    /\ nScans >= 2
    /\ Len(tickScan) = ScanSize
    /\ mLidarCoord = tickScan

FrameOf(message) ==
    IF message = NoImage THEN EmptyFrame
    ELSE [bgr |-> <<message.rgb[3], message.rgb[2], message.rgb[1]>>,
          scene |-> message.scene]

\* C7: the scan an iteration works on is exactly what the latest
\* scanCallback pushed (nothing of an older scan), and the frame is the
\* conversion of the latest image message.
C7_LastWriteWins ==
    pc \in WorkPcs =>
        /\ tickScan = written
        /\ Len(tickScan) = ScanSize
        /\ lastScan.len >= rEnd =>
              \A k \in 1..Len(tickScan) :
                  tickScan[k] =
                      BeamPoint(RangeOf(lastScan, BeamAt(k)), lastScan, BeamAt(k))
        /\ mFrame = FrameOf(lastImage)

C7_Witness ==
    /\ pc = "boundingBox"
    /\ nScans >= 2
    /\ lastTick = "fused"
    /\ lastImage # NoImage
    /\ tickScan = written

\* C8: objectPoints follows the scan position by position, the pixels
\* follow objectPoints position by position, every index returned by
\* boundingBox is an index of objectPoints, and the k-th printed VCS point
\* is the conversion of objectPoints[bboxIdx[k]].
C8_IndexLinked ==
    /\ pc \in {"project", "boundingBox", "toVCS"} =>
          /\ Len(objectPoints) = Len(tickScan)
          /\ \A i \in 1..Len(objectPoints) :
                objectPoints[i] = [x |-> tickScan[i].y, y |-> 0 - MountOffset,
                                   z |-> 0 - tickScan[i].x]
    /\ pc \in {"boundingBox", "toVCS"} =>
          /\ Len(lidarImagePoints) = Len(objectPoints)
          /\ \A i \in 1..Len(lidarImagePoints) :
                lidarImagePoints[i] = ProjectPoint(objectPoints[i], mLidarExtrinsic)
    /\ pc = "toVCS" =>
          \A j \in 1..Len(bboxIdx) :
              /\ bboxIdx[j] >= 0
              /\ bboxIdx[j] < Len(objectPoints)
    /\ (pc = "while" /\ tickScan # <<>>) =>
          /\ Len(emitted) = Len(bboxIdx)
          /\ \A j \in 1..Len(emitted) :
                emitted[j] =
                    getVCSCoordPointsFromLidar(objectPoints[bboxIdx[j] + 1],
                                               mLidarExtrinsic, mVCSExtrinsic)

\* obstacles were printed for points that are not the first of the scan
C8_Witness ==
    /\ pc = "while"
    /\ lastTick = "fused"
    /\ Len(emitted) >= 2
    /\ Len(emitted) < Len(objectPoints)
    /\ bboxIdx[2] # 1

\* C9: an iteration with a scan and no detection box prints no obstacle,
\* raises no error and returns to the loop condition.
C9_NoBoxesNoObstacles ==
    (tickScan # <<>> /\ Detect(mFrame) = <<>>) =>
        /\ fault = "none"
        /\ pc \in WorkPcs \cup {"while"}
        /\ pc = "toVCS" => bboxIdx = <<>>
        /\ pc = "while" =>
              /\ lastTick = "fused"
              /\ vcsCoords = <<>>
              /\ emitted = <<>>

\* a frame in which the detector finds nothing, and a scan with points ahead
C9_Witness ==
    /\ pc = "while"
    /\ lastTick = "fused"
    /\ mFrame # EmptyFrame
    /\ Detect(mFrame) = <<>>
    /\ \E i \in 1..Len(lidarImagePoints) : lidarImagePoints[i].valid
    /\ emitted = <<>>

\* C10 as stated: with no scan or with an empty frame an iteration does no
\* projection, no detection and no conversion, prints no obstacle and
\* raises no error.
C10_MissingDataNoWork ==
    (pc \in LoopPcs /\ (Len(mLidarCoord) = 0 \/ mFrame = EmptyFrame)) =>
        /\ steps = <<>>
        /\ lidarImagePoints = <<>>
        /\ vcsCoords = <<>>
        /\ emitted = <<>>
        /\ fault = "none"

\* C10 as amended: with no scan an iteration does no fusion work at all;
\* with a scan and an empty frame it still projects the scan, but runs no
\* detection, converts nothing and prints no obstacle; no error is raised
\* in either case.
C10_MissingDataNoObstacle ==
    /\ (pc \in LoopPcs /\ Len(mLidarCoord) = 0) =>
          /\ steps = <<>>
          /\ lidarImagePoints = <<>>
          /\ vcsCoords = <<>>
          /\ emitted = <<>>
          /\ fault = "none"
    /\ (pc \in LoopPcs /\ mFrame = EmptyFrame) =>
          /\ \A i \in 1..Len(steps) : steps[i] # "detect"
          /\ bboxIdx = <<>>
          /\ vcsCoords = <<>>
          /\ emitted = <<>>
          /\ fault = "none"

\* an iteration with a scan ended before any camera frame had arrived
C10_Witness ==
    /\ pc = "while"
    /\ lastTick = "fused"
    /\ mFrame = EmptyFrame
    /\ Len(lidarImagePoints) = ScanSize
    /\ emitted = <<>>

(***************************************************************************)
(* The loop under the scheduling of a single thread: every call of run     *)
(* returns, and ros::spinOnce returns after the finitely many callbacks    *)
(* that were queued when it was called.                                    *)
(***************************************************************************)
LoopStep ==
    \/ CalibrateLidar
    \/ CalibrateVCS
    \/ WhileCheck
    \/ CheckIdle
    \/ ToCameraAxes
    \/ Project
    \/ BoundingBox
    \/ ConvertToVCS

\* the scan messages of the fair specification: every length, every angle,
\* one content (the content of the ranges has no part in how run ends)
FairScanClear ==
    /\ ScanClear
    /\ lastScan'.spike = 0
    /\ lastScan'.hi = 2 * lastScan'.lo

FairNext ==
    \/ LoopStep
    \/ SpinReturn
    \/ FairScanClear
    \/ ScanLeftWindow
    \/ ScanRightWindow
    \/ imageCallback
    \/ Shutdown

FairSpec ==
    /\ Init
    /\ [][FairNext]_vars
    /\ WF_vars(LoopStep)
    /\ WF_vars(ScanLeftWindow)
    /\ WF_vars(ScanRightWindow)
    /\ SF_vars(SpinReturn)

Stopped == pc \in {"done", "aborted", "crashed"}

\* C11: ros::ok() is evaluated before every iteration, also after an
\* iteration skipped at line 94: once it is false no iteration is begun,
\* the loop condition leads out of the loop, and run ends after at most the
\* iteration in progress.
C11_StopsBetweenTicks ==
    /\ [][~rosOk => /\ pc = "while" => pc' = "done"
                    /\ pc' = "spin" => pc = "spin"
                    /\ pc = "done" => pc' = "done"]_vars
    /\ (~rosOk ~> Stopped)

\* the stop was requested while no scan had arrived, and run has ended
C11_Witness ==
    /\ pc = "done"
    /\ ~rosOk
    /\ lastTick = "idle"
    /\ Len(mLidarCoord) = 0

\* C12: once a scanCallback has run, every later test of line 93 finds the
\* cell non-empty: no iteration is skipped any more, whatever scan and image
\* callbacks and iterations come in between.
C12_FusingForever ==
    /\ (nScans >= 1 /\ pc \in ({"check"} \cup WorkPcs)) => Len(mLidarCoord) > 0
    /\ (pc = "while" /\ lastTick = "idle") => nScans = 0
    /\ (pc \in (LoopPcs \ {"spin"}) /\ lastTick = "fused") => Len(mLidarCoord) > 0

\* the test of line 93 after a fusing iteration and a further scan message
C12_Witness ==
    /\ pc = "check"
    /\ lastTick = "fused"
    /\ nScans >= 2
    /\ Len(mLidarCoord) = ScanSize

\* C13: every index at which scanCallback reads scan->ranges is below the
\* length of that message, so that no read is out of range and none traps.
C13_ReadsWithinBounds ==
    /\ ~oob
    /\ fault # "crash"
    /\ cb.state = "right" => cb.msg.len >= lEnd
    /\ (lastScan # NoMsg /\ cb.state = "none") => lastScan.len >= rEnd

=============================================================================
